---- MODULE Spec2Model ----
(***************************************************************************)
(* Model of extract_city_weather.py: the bootstrap of the __main__ block   *)
(* (create_database_if_not_exists, start_postgresql), the scheduler loop   *)
(* of WeatherScheduler and the fetch / clean / store pipeline of           *)
(* WeatherDataCollector.                                                   *)
(*                                                                         *)
(* Time is counted in whole seconds since the process started.             *)
(* Temperatures are integers in thousandths of a degree (300.00 K is       *)
(* 300000, 26.85 degrees C is 26850); humidity is in percent and wind      *)
(* speed in hundredths of a metre per second.                              *)
(***************************************************************************)
EXTENDS Integers, Sequences, FiniteSets, TLC

\* ---------------------------------------------------------------- bounds
\* Length of the observed run, in seconds.
MaxTime == 32
\* Longest time one HTTP request blocks, in seconds (no timeout is set).
MaxFetchSecs == 8
\* Longest time one database write blocks, in seconds.
MaxStoreSecs == 3
\* Half-width, in thousandths of a kelvin, of the temperature ranges fed
\* to clean_weather_data on its own.
SpanMilliK == 40

\* ------------------------------------------------------ program constants
\* interval_seconds=10 in the __main__ block.
Interval == 10
\* time.sleep(1) in WeatherScheduler.start.
Tick == 1
\* 273.15, in thousandths.
KelvinOffset == 273150

DbName == "weather_db"
City == "London"
Supported == {"Darwin", "Linux", "Windows"}
Systems == Supported \cup {"Other"}

VARIABLES
    system,        \* platform.system()
    reachable,     \* a connection to the server of db_url can be opened
    serviceActive, \* the host's service manager reports postgresql started
    canStart,      \* the service manager is able to start the server
    canCreate,     \* the connecting role may create databases
    databases,     \* the databases of the server
    conn,          \* conn of create_database_if_not_exists
    pc,            \* position of the single thread of control
    exc,           \* the uncaught exception that ended the process, if any
    log,           \* lines appended to weather_data.log by the unit of work
                   \* in progress: the bootstrap, then each job invocation
    now,           \* wall clock, seconds since process start
    next_run,      \* Job.next_run of the schedule library
    started,       \* number of invocations of WeatherDataCollector.run begun
    storeReturned, \* number of store_weather_data calls that have returned
    weather_data,  \* run(): result of get_weather_data
    df,            \* run(): result of clean_weather_data
    table          \* rows of table weather

vars == <<system, reachable, serviceActive, canStart, canCreate, databases,
          conn, pc, exc, log, now, next_run, started, storeReturned,
          weather_data, df, table>>

envVars == <<system, canStart, canCreate>>
jobVars == <<weather_data, df, table>>
clockVars == <<now, next_run, started, storeReturned>>

Range(s) == {s[i] : i \in 1..Len(s)}

Info(m) == <<"INFO", m>>
Warning(m) == <<"WARNING", m>>
Error(m) == <<"ERROR", m>>

Errors(l) == SelectSeq(l, LAMBDA e : e[1] = "ERROR")

\* The empty dict {} and the empty DataFrame.
EmptyDict == << >>
EmptyFrame == << >>

\* ------------------------------------------------------------- bootstrap
\* check_postgresql_status: the value returned and the lines logged.  On an
\* unsupported platform the EnvironmentError raised in the try block is
\* caught by the except Exception clause of the same function.
CheckPostgresqlStatus ==
    IF system \in Supported
    THEN [ret |-> serviceActive, lines |-> << >>]
    ELSE [ret |-> FALSE,
          lines |-> <<Error("unsupported os"), Error("unexpected status error")>>]

\* The try block of start_postgresql once the status check returned False:
\* whether the service came up, and the lines logged.  Every exception
\* raised in the block is caught by one of the two except clauses.
StartOutcomes ==
    CASE system = "Darwin" ->
           IF canStart
           THEN {[ok |-> TRUE, lines |-> <<Info("started macOS")>>]}
           ELSE {[ok |-> FALSE, lines |-> <<Error("start failed")>>]}
      [] system = "Linux" ->
           IF canStart
           THEN {[ok |-> TRUE, lines |-> <<Info("started systemd")>>],
                 [ok |-> TRUE, lines |-> <<Info("started service")>>]}
           ELSE {[ok |-> FALSE, lines |-> <<Error("start failed")>>]}
      [] system = "Windows" ->
           IF canStart
           THEN {[ok |-> TRUE, lines |-> <<Info("started Windows")>>]}
           ELSE {[ok |-> FALSE,
                  lines |-> <<Error("start failed Windows"),
                              Error("need administrative privileges")>>]}
      [] OTHER ->
           {[ok |-> FALSE,
             lines |-> <<Error("unsupported os"), Error("unexpected error")>>]}

\* The server's answer to CREATE DATABASE: the privilege to create
\* databases is checked before the name.
CreateAnswer ==
    IF ~canCreate THEN "denied"
    ELSE IF DbName \in databases THEN "duplicate" ELSE "created"

\* The lines logged by the handlers around cursor.execute.
CreateLines(answer) ==
    CASE answer = "created" -> <<Info("database created")>>
      [] answer = "duplicate" -> <<Info("database already exists")>>
      [] OTHER -> <<Error("error creating database")>>

\* Finally without the call of conn.close(): the connection is left open.
FinallyNoClose(c) ==
    IF c = "unbound"
    THEN [conn |-> c, exc |-> "UnboundLocalError"]
    ELSE [conn |-> c, exc |-> "none"]

\* The finally clause: `if conn: conn.close()`.  conn is a local that only
\* the assignment from psycopg2.connect binds, so reading it after a failed
\* connect raises UnboundLocalError out of the function.
Finally(c) ==
    IF c = "unbound"
    THEN [conn |-> c, exc |-> "UnboundLocalError"]
    ELSE [conn |-> "closed", exc |-> "none"]

CreateDatabaseIfNotExists ==
    /\ pc = "create_db"
    /\ LET c == IF reachable THEN "open" ELSE "unbound"
           answer == IF reachable THEN CreateAnswer ELSE "none"
           lines == IF reachable THEN CreateLines(answer)
                    ELSE <<Error("error connecting")>>
           fin == Finally(c)
       IN  /\ databases' = IF answer = "created"
                           THEN databases \cup {DbName} ELSE databases
           /\ log' = log \o lines
           /\ conn' = fin.conn
           /\ exc' = fin.exc
           /\ pc' = IF fin.exc = "none" THEN "start_pg" ELSE "terminated"
    /\ UNCHANGED <<reachable, serviceActive, envVars, clockVars, jobVars>>

StartPostgresql ==
    /\ pc = "start_pg"
    /\ LET st == CheckPostgresqlStatus
       IN  \/ /\ st.ret
              /\ log' = log \o st.lines \o <<Info("already running")>>
              /\ UNCHANGED <<reachable, serviceActive>>
           \/ /\ ~st.ret
              /\ \E o \in StartOutcomes :
                    /\ log' = log \o st.lines \o o.lines
                    /\ serviceActive' = (serviceActive \/ o.ok)
                    /\ reachable' = (reachable \/ o.ok)
    /\ pc' = "setup"
    /\ UNCHANGED <<envVars, databases, conn, exc, clockVars, jobVars>>

\* ------------------------------------------------------------- scheduler
\* ScheduleNextRun one tick short of the period.
ScheduleNextRunEarly(t) == t + Interval - Tick

\* Job._schedule_next_run of the schedule library, for every(n).seconds:
\* next_run = datetime.now() + period.
ScheduleNextRun(t) == t + Interval

\* Job.should_run: datetime.now() >= next_run.
ShouldRun == now >= next_run

\* RunNext for a run that hands its work off and returns to the loop at
\* once, as a job started on a thread of its own would.
RunNextDetached(stage) == "sleep"

\* The order of the calls of WeatherDataCollector.run; when the last one
\* returns, run_pending returns and the loop sleeps.
RunNext(stage) ==
    CASE stage = "fetch" -> "clean"
      [] stage = "clean" -> "store"
      [] OTHER -> "sleep"

\* The rest of the __main__ block: the two constructors, schedule_job and
\* the first line of start.
ScheduleJob ==
    /\ pc = "setup"
    /\ next_run' = ScheduleNextRun(now)
    /\ log' = log \o <<Info("collector initialized"),
                        Info("scheduler initialized"),
                        Info("job scheduled"),
                        Info("starting scheduler")>>
    /\ pc' = "run_pending"
    /\ UNCHANGED <<reachable, serviceActive, envVars, databases, conn, exc,
                   now, started, storeReturned, jobVars>>

\* schedule.run_pending(): runs the job when it is due.
RunPending ==
    /\ pc = "run_pending"
    /\ IF ShouldRun
       THEN /\ started' = started + 1
            /\ log' = << >>
            /\ pc' = "fetch"
       ELSE /\ pc' = "sleep"
            /\ UNCHANGED <<started, log>>
    /\ UNCHANGED <<reachable, serviceActive, envVars, databases, conn, exc,
                   now, next_run, storeReturned, jobVars>>

\* time.sleep(1)
Sleep ==
    /\ pc = "sleep"
    /\ now + Tick <= MaxTime
    /\ now' = now + Tick
    /\ pc' = "run_pending"
    /\ UNCHANGED <<reachable, serviceActive, envVars, databases, conn, exc,
                   log, next_run, started, storeReturned, jobVars>>

\* -------------------------------------------------------------- pipeline
\* A JSON body of the weather API with every field the code reads.
Body(t, h) ==
    [main |-> [temp |-> t, humidity |-> h],
     wind |-> [speed |-> 350],
     weather |-> <<[description |-> "clear sky"]>>]

\* The temperatures, in thousandths of a kelvin, of the API in the run.
ApiTemps == {300000, 272155}

\* What requests.get can produce: no response at all, an error status, or
\* a 2xx response whose body has every field, lacks main.temp or has an
\* empty weather list.
Responses ==
    {[kind |-> "transport", status |-> 0, body |-> << >>]}
    \cup {[kind |-> "http", status |-> s, body |-> << >>] : s \in {404, 500}}
    \cup {[kind |-> "http", status |-> 200, body |-> Body(t, 50)] : t \in ApiTemps}
    \cup {[kind |-> "http", status |-> 200,
           body |-> [main |-> [humidity |-> 50],
                     wind |-> [speed |-> 350],
                     weather |-> <<[description |-> "clear sky"]>>]],
          [kind |-> "http", status |-> 200,
           body |-> [main |-> [temp |-> 300000, humidity |-> 50],
                     wind |-> [speed |-> 350],
                     weather |-> << >>]]}

\* response.raise_for_status() raises HTTPError for 4xx and 5xx.
RaisesForStatus(resp) == resp.status \in 400..599

\* The subscripts data['main']['temp'], data['main']['humidity'],
\* data['wind']['speed'], data['weather'][0]['description'] all succeed.
WellFormed(body) ==
    /\ "main" \in DOMAIN body
    /\ "temp" \in DOMAIN body.main
    /\ "humidity" \in DOMAIN body.main
    /\ "wind" \in DOMAIN body
    /\ "speed" \in DOMAIN body.wind
    /\ "weather" \in DOMAIN body
    /\ Len(body.weather) >= 1
    /\ "description" \in DOMAIN body.weather[1]

\* Fetch whose except clause returns a placeholder reading instead of {}.
FetchStale(resp, t) ==
    IF resp.kind = "transport" \/ RaisesForStatus(resp)
    THEN [exc |-> "none",
          ret |-> [city |-> City, temperature |-> 0, humidity |-> 0,
                   wind_speed |-> 0, weather |-> "", timestamp |-> t],
          lines |-> <<Info("fetching"), Error("error fetching")>>]
    ELSE IF ~WellFormed(resp.body)
    THEN [exc |-> "LookupError", ret |-> EmptyDict,
          lines |-> <<Info("fetching")>>]
    ELSE [exc |-> "none",
          ret |-> [city |-> City,
                   temperature |-> resp.body.main.temp,
                   humidity |-> resp.body.main.humidity,
                   wind_speed |-> resp.body.wind.speed,
                   weather |-> resp.body.weather[1].description,
                   timestamp |-> t],
          lines |-> <<Info("fetching"), Info("fetched")>>]

\* get_weather_data on response resp, returning at time t.  Only
\* requests.exceptions.RequestException is caught: the KeyError or
\* IndexError of a missing field (LookupError) leaves the function.
Fetch(resp, t) ==
    IF resp.kind = "transport" \/ RaisesForStatus(resp)
    THEN [exc |-> "none", ret |-> EmptyDict,
          lines |-> <<Info("fetching"), Error("error fetching")>>]
    ELSE IF ~WellFormed(resp.body)
    THEN [exc |-> "LookupError", ret |-> EmptyDict,
          lines |-> <<Info("fetching")>>]
    ELSE [exc |-> "none",
          ret |-> [city |-> City,
                   temperature |-> resp.body.main.temp,
                   humidity |-> resp.body.main.humidity,
                   wind_speed |-> resp.body.wind.speed,
                   weather |-> resp.body.weather[1].description,
                   timestamp |-> t],
          lines |-> <<Info("fetching"), Info("fetched")>>]

\* Round2 that cuts the third decimal off instead of rounding.
Round2Truncate(x, up) == 10 * (x \div 10)

\* Series.round(2) on a value in thousandths: to the nearest hundredth.  A
\* value halfway between two hundredths has no exact binary representation
\* after the subtraction of 273.15, so either neighbour can come out: up
\* says which.
Round2(x, up) ==
    LET q == x \div 10
        r == x % 10
    IN  IF r < 5 THEN 10 * q
        ELSE IF r > 5 \/ up THEN 10 * (q + 1)
        ELSE 10 * q

\* clean_weather_data: the frame returned and the lines logged.
Clean(data, up) ==
    IF DOMAIN data = {}
    THEN [df |-> EmptyFrame, lines |-> <<Warning("no data to clean")>>]
    ELSE [df |-> <<[data EXCEPT !.temperature = Round2(@ - KelvinOffset, up)]>>,
          lines |-> <<Info("cleaned")>>]

\* Store with to_sql(if_exists='replace'): the rows already there are lost.
StoreReplace(frame, tbl, ok) ==
    IF Len(frame) = 0
    THEN [table |-> tbl, lines |-> <<Warning("no data to store")>>]
    ELSE IF ok
    THEN [table |-> frame, lines |-> <<Info("stored")>>]
    ELSE [table |-> tbl, lines |-> <<Error("error storing")>>]

\* store_weather_data: the table after the call and the lines logged; ok
\* says whether create_engine and to_sql(if_exists='append') went through.
Store(frame, tbl, ok) ==
    IF Len(frame) = 0
    THEN [table |-> tbl, lines |-> <<Warning("no data to store")>>]
    ELSE IF ok
    THEN [table |-> tbl \o frame, lines |-> <<Info("stored")>>]
    ELSE [table |-> tbl, lines |-> <<Error("error storing")>>]

GetWeatherData ==
    /\ pc = "fetch"
    /\ \E secs \in 0..MaxFetchSecs, resp \in Responses :
          /\ now + secs <= MaxTime
          /\ now' = now + secs
          /\ LET r == Fetch(resp, now')
             IN  /\ weather_data' = r.ret
                 /\ log' = log \o r.lines
                 /\ exc' = r.exc
                 /\ pc' = IF r.exc = "none" THEN RunNext("fetch")
                          ELSE "terminated"
    /\ UNCHANGED <<reachable, serviceActive, envVars, databases, conn,
                   next_run, started, storeReturned, df, table>>

CleanWeatherData ==
    /\ pc = "clean"
    /\ \E up \in BOOLEAN :
          LET r == Clean(weather_data, up)
          IN  /\ df' = r.df
              /\ log' = log \o r.lines
    /\ pc' = RunNext("clean")
    /\ UNCHANGED <<reachable, serviceActive, envVars, databases, conn, exc,
                   clockVars, weather_data, table>>

\* store_weather_data, then the return of run to Job.run of the schedule
\* library, which sets next_run, and of run_pending to the loop.
StoreWeatherData ==
    /\ pc = "store"
    /\ \E secs \in 0..MaxStoreSecs, ok \in BOOLEAN :
          /\ Len(df) = 0 => (secs = 0 /\ ~ok)
          /\ ok => (reachable /\ DbName \in databases)
          /\ now + secs <= MaxTime
          /\ now' = now + secs
          /\ LET r == Store(df, table, ok)
             IN  /\ table' = r.table
                 /\ log' = log \o r.lines
    /\ storeReturned' = storeReturned + 1
    /\ next_run' = ScheduleNextRun(now')
    /\ pc' = RunNext("store")
    /\ weather_data' = EmptyDict
    /\ df' = EmptyFrame
    /\ UNCHANGED <<reachable, serviceActive, envVars, databases, conn, exc,
                   started>>

\* --------------------------------------------------------- specification
\* A row left in table weather by an earlier run of the program.
OldRow ==
    [city |-> City, temperature |-> 26850, humidity |-> 50,
     wind_speed |-> 350, weather |-> "clear sky", timestamp |-> -60]

Init ==
    /\ system \in Systems
    /\ reachable \in BOOLEAN
    /\ serviceActive \in BOOLEAN
    /\ serviceActive => reachable
    /\ canStart \in BOOLEAN
    /\ canCreate \in BOOLEAN
    /\ databases \in {{"postgres"}, {"postgres", DbName}}
    /\ conn = "unbound"
    /\ pc = "create_db"
    /\ exc = "none"
    /\ log = << >>
    /\ now = 0
    /\ next_run = 0
    /\ started = 0
    /\ storeReturned = 0
    /\ weather_data = EmptyDict
    /\ df = EmptyFrame
    /\ table \in IF DbName \in databases THEN {<< >>, <<OldRow>>} ELSE {<< >>}

Next ==
    \/ CreateDatabaseIfNotExists
    \/ StartPostgresql
    \/ ScheduleJob
    \/ RunPending
    \/ Sleep
    \/ GetWeatherData
    \/ CleanWeatherData
    \/ StoreWeatherData

Spec == Init /\ [][Next]_vars

\* clean_weather_data on its own: the reading of one get_weather_data call
\* over a range of API temperatures around 273.15 K and 300.00 K, or the
\* empty dict of a failed fetch, about to be cleaned.
CleanTemps ==
    {KelvinOffset + d : d \in (0 - SpanMilliK)..SpanMilliK}
    \cup {300000 + d : d \in 0..SpanMilliK}

CleanResponses ==
    {[kind |-> "transport", status |-> 0, body |-> << >>]}
    \cup {[kind |-> "http", status |-> 200, body |-> Body(t, h)] :
            t \in CleanTemps, h \in {50, 93}}

InitClean ==
    /\ system = "Linux"
    /\ reachable = TRUE
    /\ serviceActive = TRUE
    /\ canStart = TRUE
    /\ canCreate = TRUE
    /\ databases = {"postgres", DbName}
    /\ conn = "closed"
    /\ pc = "clean"
    /\ exc = "none"
    /\ now = Interval
    /\ next_run = Interval
    /\ started = 1
    /\ storeReturned = 0
    /\ \E resp \in CleanResponses :
          /\ weather_data = Fetch(resp, now).ret
          /\ log = Fetch(resp, now).lines
    /\ df = EmptyFrame
    /\ table = << >>

NextClean == CleanWeatherData

SpecClean == InitClean /\ [][NextClean]_vars

\* ---------------------------------------------------------------- claims
LoopPcs == {"run_pending", "sleep", "fetch", "clean", "store"}

FetchFailed(l) == Error("error fetching") \in Range(l)

\* C1: no error raised by a stage of a job invocation ends the scheduler
\* loop: once invocations have begun the process is never terminated by an
\* exception, whatever the fetch, the clean or the store met.
C1_NoStageErrorEndsLoop == started > 0 => pc # "terminated"

\* C2: two job invocations never overlap: an invocation of run begins only
\* when the store step of every earlier invocation has returned, however
\* long the fetch and the store took.
C2_NoOverlap ==
    [][started' # started =>
          (started' = started + 1 /\ storeReturned = started)]_vars

\* C2 witness: the second invocation begins more than three intervals into
\* the run, after a first invocation that took longer than the interval.
C2_Witness ==
    /\ started = 2
    /\ storeReturned = 1
    /\ pc = "fetch"
    /\ now > 3 * Interval

\* C3: in a cycle whose fetch fails (transport failure or error status)
\* get_weather_data returns empty, clean_weather_data returns empty,
\* store_weather_data writes nothing, the table keeps its rows, the cycle
\* logs exactly one ERROR line, and the job is scheduled again with the
\* loop back to waiting.
C3_FailedFetchCycle ==
    [][ /\ (pc = "fetch" /\ FetchFailed(log')) =>
              (DOMAIN weather_data' = {} /\ pc' = "clean")
        /\ (pc = "clean" /\ FetchFailed(log)) =>
              (Len(df') = 0 /\ pc' = "store")
        /\ (pc = "store" /\ FetchFailed(log)) =>
              /\ Len(Errors(log')) = 1
              /\ pc' = "sleep"
              /\ exc' = "none"
              /\ next_run' = now' + Interval
        /\ FetchFailed(log) => table' = table ]_vars

\* C3 witness: the second cycle's fetch failed and the cycle is over; the
\* row of the first cycle is still there.
C3_Witness ==
    /\ pc = "sleep"
    /\ started = 2
    /\ storeReturned = 2
    /\ FetchFailed(log)
    /\ Len(Errors(log)) = 1
    /\ Len(table) >= 1

\* C4: table weather is append-only: every step keeps the rows already
\* there, in place; a cycle adds exactly one row, its own cleaned reading,
\* when its fetch and its write both succeeded, and none otherwise.
C4_AppendOnly ==
    [][ /\ Len(table') >= Len(table)
        /\ SubSeq(table', 1, Len(table)) = table
        /\ Len(table') - Len(table) =
              IF /\ pc = "store"
                 /\ Info("fetched") \in Range(log)
                 /\ Info("stored") \in Range(log')
              THEN 1 ELSE 0
        /\ Len(table') > Len(table) => table'[Len(table')] = df[1] ]_vars

\* C4 witness: two cycles stored a row each, the write of a third failed,
\* and both rows are in the table.
C4_Witness ==
    /\ pc = "sleep"
    /\ started = 3
    /\ storeReturned = 3
    /\ Error("error storing") \in Range(log)
    /\ Len(table) >= 2

\* C5: for a non-empty reading clean_weather_data returns one record whose
\* temperature is the Kelvin input minus 273.15 rounded to 2 decimal places
\* (a multiple of a hundredth, at most half a hundredth away; 300.00 K gives
\* 26.85) and whose city, humidity, wind speed, description and timestamp
\* are the input's.
C5_CleanConverts ==
    (pc = "store" /\ DOMAIN weather_data # {}) =>
        /\ Len(df) = 1
        /\ LET r == df[1]
               c == weather_data.temperature - KelvinOffset
           IN  /\ r.temperature % 10 = 0
               /\ r.temperature - c \in -5..5
               /\ weather_data.temperature = 300000 => r.temperature = 26850
               /\ r.city = weather_data.city
               /\ r.humidity = weather_data.humidity
               /\ r.wind_speed = weather_data.wind_speed
               /\ r.weather = weather_data.weather
               /\ r.timestamp = weather_data.timestamp
               /\ DOMAIN r = DOMAIN weather_data

\* C5 witness: the reading of 300.00 K has been cleaned to 26.85.
C5_Witness ==
    /\ pc = "store"
    /\ DOMAIN weather_data # {}
    /\ weather_data.temperature = 300000
    /\ Len(df) = 1
    /\ df[1].temperature = 26850

\* C6 (as stated): at every moment D of the run the number of invocations
\* begun is floor(D / I) plus or minus 1.
C6_CountWithinOne ==
    pc \in LoopPcs =>
        /\ started >= (now \div Interval) - 1
        /\ started <= (now \div Interval) + 1

\* C6 (amended): at every moment D of the run at most floor(D / I)
\* invocations have begun, and an invocation begins at the first tick at
\* which the time since the previous invocation returned (since the job
\* was scheduled, for the first) has reached I, less than a tick late.
C6_CountAtMost ==
    /\ [](started * Interval <= now)
    /\ [][started' # started =>
             (now >= next_run /\ now - next_run < Tick)]_vars

\* C6 witness: the second invocation begins when it is due, later than
\* two intervals into the run.
C6_Witness ==
    /\ started = 2
    /\ pc = "fetch"
    /\ now = next_run
    /\ now > 2 * Interval

\* C7: when the server cannot be reached, create_database_if_not_exists
\* logs the failure and returns normally, and the process goes on.
C7_UnreachableServerIsSurvived ==
    Error("error connecting") \in Range(log) => pc # "terminated"

\* C8: on a platform that is none of Darwin, Linux, Windows the process
\* ends in the bootstrap and the scheduler loop is never entered.
C8_UnsupportedPlatformIsFatal ==
    system \notin Supported => pc \notin LoopPcs

\* C9: from every start state in which the service manager can start the
\* server and the role can create the database, the bootstrap completes
\* (the process does not end before the first invocation is scheduled) and,
\* once it has, the server is running and the target database exists.
C9_BootstrapEnsuresServerAndDatabase ==
    (system \in Supported /\ canStart /\ canCreate) =>
        /\ started = 0 => pc # "terminated"
        /\ pc \in LoopPcs => (reachable /\ DbName \in databases)

\* C10 (as stated): running create_database_if_not_exists against a server
\* that holds the target database logs 'already exists' at INFO and nothing
\* at ERROR, leaves the databases as they are, closes the connection and
\* returns normally.
C10_ExistingDatabaseLogsExists ==
    [][(pc = "create_db" /\ reachable /\ DbName \in databases) =>
          /\ Info("database already exists") \in Range(log')
          /\ Len(Errors(log')) = 0
          /\ databases' = databases
          /\ conn' = "closed"
          /\ pc' = "start_pg"
          /\ exc' = "none"]_vars

\* C10 (amended): against a server that holds the target database the
\* function leaves the databases as they are, closes the connection and
\* returns normally; it logs 'already exists' at INFO when the role may
\* create databases, and the server's refusal at ERROR when it may not.
C10_ExistingDatabaseUnchanged ==
    [][(pc = "create_db" /\ reachable /\ DbName \in databases) =>
          /\ databases' = databases
          /\ conn' = "closed"
          /\ pc' = "start_pg"
          /\ exc' = "none"
          /\ log' = IF canCreate
                    THEN <<Info("database already exists")>>
                    ELSE <<Error("error creating database")>>]_vars

\* C10 witness: the function has run against an existing database and
\* logged 'already exists'.
C10_Witness ==
    /\ pc = "start_pg"
    /\ log = <<Info("database already exists")>>
    /\ conn = "closed"
    /\ DbName \in databases

====
